---- MODULE Spec2Model ----
(***************************************************************************)
(* PVSuitabilityAnalyzer (pv_suitability_analysis): coordinate validator,  *)
(* grid fetcher with retry/backoff and pacing, scorer and selector.        *)
(*                                                                         *)
(* Coordinates are integers: one degree is Deg = Micro * SubMicro units,   *)
(* so that round(x, 6) has something to round.  Energies are integer kWh,  *)
(* ratios (seasonal_variation, performance_ratio) are in percent.          *)
(***************************************************************************)
EXTENDS Integers, Sequences, FiniteSets, TLC

\* ------------------------------------------------------------------------
\* Bounds of the model
\* ------------------------------------------------------------------------
SubMicro == 4        \* model units per 1e-6 degree
MaxRetries == 3      \* largest max_retries a caller passes
MaxPoints == 4       \* lattice points enumerated per behaviour, over all calls
MaxTopN == 3         \* largest top_n a caller passes
ScoreScale == 1000   \* scores are kept in units of 1 / ScoreScale
MaxScoreRows == 2    \* largest dataset that is scored on its own
Precision == 8       \* significant bits of a float of the model (a double has 53)
MaxTenth == 10       \* largest coordinate, in tenths, of a grid that is only counted
MaxInt == 11         \* largest argument of gen_listof_int

\* round(x, 6): 10^6 steps per degree
Micro == 1000000

Deg == Micro * SubMicro

D(n) == n * Deg

\* ------------------------------------------------------------------------
\* Coordinate validator
\* ------------------------------------------------------------------------
\* round(lat, 6) / round(lon, 6): nearest multiple of 1e-6 degree, ties to even
Round6(x) ==
    LET q == x \div SubMicro
        r == x % SubMicro
    IN  IF 2 * r < SubMicro THEN q * SubMicro
        ELSE IF 2 * r > SubMicro THEN (q + 1) * SubMicro
        ELSE IF q % 2 = 0 THEN q * SubMicro ELSE (q + 1) * SubMicro

is_over_land_always(lat, lon) == TRUE

is_over_land(lat, lon) ==
    IF /\ D(30) <= lat /\ lat <= D(46) /\ D(-6) <= lon /\ lon <= D(36)
       /\ \/ (D(36) <= lat /\ lat <= D(44) /\ D(-1) <= lon /\ lon <= D(8))
          \/ (D(35) <= lat /\ lat <= D(42) /\ D(12) <= lon /\ lon <= D(20))
          \/ (D(33) <= lat /\ lat <= D(40) /\ D(24) <= lon /\ lon <= D(30))
    THEN FALSE
    ELSE IF lon < D(-10) \/ lon > D(40) THEN FALSE
    ELSE TRUE

validate_coordinates(lat, lon) ==
    IF ~(D(-90) <= lat /\ lat <= D(90) /\ D(-180) <= lon /\ lon <= D(180))
    THEN FALSE
    ELSE IF ~is_over_land(lat, lon) THEN FALSE
    ELSE TRUE

\* ------------------------------------------------------------------------
\* Provider responses (what requests.get / response.json() can produce)
\* ------------------------------------------------------------------------
Month(e, h, pr) == [E_m |-> e, H_m |-> h, PR |-> pr]

Payload(status, shape, e, h, monthly) ==
    [status |-> status, shape |-> shape, E_y |-> e, H_y |-> h, monthly |-> monthly]

NoPayload == Payload("none", "none", 0, 0, << >>)

\* status: "ok" | "timeout" | "http400" | "http500" | "neterr" | "badjson"
\* shape of the decoded JSON when status = "ok":
\*   "null"          not a container (null, a number)
\*   "no_outputs"    an object without the key outputs
\*   "outputs_null"  {"outputs": null}
\*   "outputs_list"  {"outputs": [...]}
\*   "totals_nokey"  {"outputs": {"totals": {}}}
\*   "bare"          {"outputs": {}}  (no totals, no monthly)
\*   "totals_fixed"  {"outputs": {"totals": {"fixed": {E_y, H(i)_y}}, monthly?}}
\*   "totals_flat"   {"outputs": {"totals": {E_y, H(i)_y}, monthly?}}
\*   "monthly_only"  {"outputs": {"monthly": [...]}}
FailureResponses ==
    { Payload(s, "none", 0, 0, << >>) :
        s \in {"timeout", "http400", "http500", "neterr", "badjson"} }
    \cup
    { Payload("ok", sh, 0, 0, << >>) :
        sh \in {"null", "no_outputs", "outputs_null", "outputs_list",
                "totals_nokey", "bare"} }

SuccessResponses ==
    { Payload("ok", "totals_fixed", 1600, 2000,
              << Month(100, 120, 85), Month(180, 200, 85) >>),
      Payload("ok", "totals_flat", 1400, 1800, << >>),
      Payload("ok", "monthly_only", 0, 0,
              << Month(700, 900, 80), Month(800, 1000, 90) >>) }

Responses == FailureResponses \cup SuccessResponses

\* ------------------------------------------------------------------------
\* fetch_pvgis_data
\* ------------------------------------------------------------------------
FetchResult(requested, raised, isNone, data) ==
    [requested |-> requested, raised |-> raised, isNone |-> isNone, data |-> data]

\* the body of the try block and its except clauses, lines 155-187
provider_call(resp) ==
    IF resp.status # "ok"
    THEN FetchResult(TRUE, "", TRUE, NoPayload)
    ELSE IF resp.shape = "null"
    THEN FetchResult(TRUE, "TypeError", TRUE, NoPayload)
    ELSE IF resp.shape = "no_outputs"
    THEN FetchResult(TRUE, "", TRUE, NoPayload)
    ELSE FetchResult(TRUE, "", FALSE, resp)

fetch_pvgis_data_unchecked(lat, lon, resp) == provider_call(resp)

fetch_pvgis_data(lat, lon, resp) ==
    LET rlat == Round6(lat)
        rlon == Round6(lon)
    IN  IF ~validate_coordinates(rlat, rlon)
        THEN FetchResult(FALSE, "", TRUE, NoPayload)
        ELSE provider_call(resp)

\* ------------------------------------------------------------------------
\* Record extraction, analyze_grid_area lines 252-316
\* ------------------------------------------------------------------------
Row(lon, lat, e, h, sv, pr) ==
    [longitude |-> lon, latitude |-> lat, annual_energy_kwh |-> e,
     annual_irradiation_kwh_m2 |-> h, seasonal_variation |-> sv,
     performance_ratio |-> pr, specific_yield |-> e]

NoRow == Row(0, 0, 0, 0, 0, 0)

RECURSIVE SumSeq(_)
SumSeq(s) == IF s = << >> THEN 0 ELSE Head(s) + SumSeq(Tail(s))

E_of(monthly) == [k \in DOMAIN monthly |-> monthly[k].E_m]
H_of(monthly) == [k \in DOMAIN monthly |-> monthly[k].H_m]
PR_of(monthly) == [k \in DOMAIN monthly |-> monthly[k].PR]

MaxOf(S) == CHOOSE x \in S : \A y \in S : y <= x
MinOf(S) == CHOOSE x \in S : \A y \in S : x <= y

\* (max - min) / mean of the monthly energies, in percent
SeasonalVariation(monthly) ==
    LET vals == { monthly[k].E_m : k \in DOMAIN monthly }
    IN  ((MaxOf(vals) - MinOf(vals)) * Len(monthly) * 100) \div SumSeq(E_of(monthly))

\* mean of the monthly PR, in percent
PerformanceRatio(monthly) == SumSeq(PR_of(monthly)) \div Len(monthly)

Extracted(kind, err, row) == [kind |-> kind, err |-> err, row |-> row]

ExtractRecord(lon, lat, isNone, data) ==
    IF isNone THEN Extracted("skip", "", NoRow)
    ELSE IF data.shape = "outputs_null" THEN Extracted("skip", "", NoRow)
    ELSE IF data.shape = "totals_nokey" THEN Extracted("skip", "", NoRow)
    ELSE IF data.shape = "outputs_list" THEN Extracted("raise", "AttributeError", NoRow)
    ELSE IF data.shape \notin {"totals_fixed", "totals_flat"} /\ data.monthly = << >>
    THEN Extracted("skip", "", NoRow)
    ELSE
      LET totals == data.shape \in {"totals_fixed", "totals_flat"}
          e  == IF totals THEN data.E_y ELSE SumSeq(E_of(data.monthly))
          h  == IF totals THEN data.H_y ELSE SumSeq(H_of(data.monthly))
          sv == IF data.monthly # << >> THEN SeasonalVariation(data.monthly) ELSE 20
          pr == IF data.monthly # << >> THEN PerformanceRatio(data.monthly) ELSE 80
      IN  Extracted("append", "", Row(lon, lat, e, h, sv, pr))

\* ------------------------------------------------------------------------
\* Grid enumeration, analyze_grid_area lines 220-225
\* ------------------------------------------------------------------------
\* np.arange(start, stop, step) for step > 0, for arguments that floats hold
\* exactly (whole degrees and the model's units): no operation rounds
Arange(start, stop, step) ==
    LET n == IF stop > start THEN ((stop - start) + step - 1) \div step ELSE 0
    IN  [k \in 1..n |-> start + (k - 1) * step]

GridPoints_colmajor(bounds, grid_spacing) ==
    LET lon_range == Arange(bounds[1], bounds[3] + grid_spacing, grid_spacing)
        lat_range == Arange(bounds[2], bounds[4] + grid_spacing, grid_spacing)
        nlat == Len(lat_range)
    IN  [k \in 1..(nlat * Len(lon_range)) |->
            << lon_range[((k - 1) \div nlat) + 1], lat_range[((k - 1) % nlat) + 1] >>]

\* list(zip(lon_grid.flatten(), lat_grid.flatten())) of np.meshgrid(lon_range, lat_range)
GridPoints(bounds, grid_spacing) ==
    LET lon_range == Arange(bounds[1], bounds[3] + grid_spacing, grid_spacing)
        lat_range == Arange(bounds[2], bounds[4] + grid_spacing, grid_spacing)
        nlon == Len(lon_range)
    IN  [k \in 1..(nlon * Len(lat_range)) |->
            << lon_range[((k - 1) % nlon) + 1], lat_range[((k - 1) \div nlon) + 1] >>]

BoundsError_lononly(bounds) ==
    IF ~(D(-180) <= bounds[1] /\ bounds[1] <= D(180)
         /\ D(-180) <= bounds[3] /\ bounds[3] <= D(180))
    THEN "InvalidBounds"
    ELSE ""

\* lines 214-218
BoundsError(bounds) ==
    IF ~(D(-180) <= bounds[1] /\ bounds[1] <= D(180)
         /\ D(-180) <= bounds[3] /\ bounds[3] <= D(180))
    THEN "InvalidBounds"
    ELSE IF ~(D(-90) <= bounds[2] /\ bounds[2] <= D(90)
              /\ D(-90) <= bounds[4] /\ bounds[4] <= D(90))
    THEN "InvalidBounds"
    ELSE ""

\* lines 215, 217 and 319-321: the exception that leaves analyze_grid_area is a
\* ValueError made from a fixed message and nothing else
Raised(err, bounds) ==
    [type |-> "ValueError",
     message |->
        IF err = "NoDataRetrieved"
        THEN "No valid data points retrieved. Check your bounds and internet connection."
        ELSE IF BoundsError_lononly(bounds) # ""
        THEN "Longitude must be between -180 and 180 degrees"
        ELSE "Latitude must be between -90 and 90 degrees"]

\* the calls of analyze_grid_area the model makes: bounds
\* (min_lon, min_lat, max_lon, max_lat) and grid_spacing
GridRequest(b, s) == [bounds |-> b, grid_spacing |-> s]

GridRequests ==
    { GridRequest(<< D(-3), D(40), D(-3), D(40) >>, D(1)),
      GridRequest(<< D(-2) - 1, D(40), D(-1) - 1, D(40) >>, D(1)),
      GridRequest(<< D(-2), D(44), D(-1), D(45) >>, D(1)),
      GridRequest(<< D(-3), D(40), D(-5), D(40) >>, D(1)),
      GridRequest(<< D(-181), D(40), D(-3), D(40) >>, D(1)),
      GridRequest(<< D(-3), D(91), D(-3), D(91) >>, D(1)) }

Delays == {0, 3}

\* max_retries values a caller passes
RetryChoices == {0, 1, MaxRetries}

\* ------------------------------------------------------------------------
\* State
\* ------------------------------------------------------------------------
VARIABLES
    pv_data,             \* self.pv_data
    suitability_scores,  \* self.suitability_scores
    pc,                  \* position: "idle" or a place in analyze_grid_area
    grid_points,         \* local grid_points
    i,                   \* loop index of the for over grid_points (0-based)
    attempt,             \* loop index of the retry loop
    fetched,             \* local pv_data of analyze_grid_area
    results,             \* local results
    max_retries,         \* argument
    delay,               \* argument delay_between_requests
    outcome,             \* the last call: its arguments and how it ended
    requests,            \* requests.get calls made for the current point
    waits,               \* time.sleep calls made for the current point
    paceWaits,           \* time.sleep(delay_between_requests) calls of this run
    enumerated,          \* lattice points enumerated so far, over all calls
    succeeded,           \* the stages that have completed successfully so far
    vlat, vlon, vdone, vout, \* a validate_coordinates call and its result
    carg, cret, cdone,       \* a call of a function on its own: arguments, result
    scoreRuns                \* successful calculate_suitability_score calls in a
                             \* row with the same weights, counted up to 2

vars == << pv_data, suitability_scores, pc, grid_points, i, attempt, fetched,
           results, max_retries, delay, outcome, requests, waits, paceWaits,
           enumerated, succeeded, vlat, vlon, vdone, vout, carg, cret, cdone,
           scoreRuns >>

validatorVars == << vlat, vlon, vdone, vout >>

callVars == << carg, cret, cdone >>

\* None and a DataFrame of rows
NoneDF == [isNone |-> TRUE, rows |-> << >>]
DataFrame(rows) == [isNone |-> FALSE, rows |-> rows]

NoneFetched == [isNone |-> TRUE, data |-> NoPayload]

\* a call: its arguments, how it ended (err = "" is a normal return, "running"
\* a call still in progress), the rows it returned and the number of records
\* it had accumulated
Outcome(op, args, err, value, n) ==
    [op |-> op, args |-> args, err |-> err, value |-> value, n |-> n]

Wait(kind, t) == [kind |-> kind, t |-> t]

Init ==
    /\ pv_data = NoneDF
    /\ suitability_scores = NoneDF
    /\ pc = "idle"
    /\ grid_points = << >>
    /\ i = 0
    /\ attempt = 0
    /\ fetched = NoneFetched
    /\ results = << >>
    /\ max_retries = 0
    /\ delay = 0
    /\ outcome = Outcome("none", << >>, "", << >>, 0)
    /\ requests = 0
    /\ waits = << >>
    /\ paceWaits = 0
    /\ enumerated = 0
    /\ succeeded = {}
    /\ vlat = 0 /\ vlon = 0 /\ vdone = FALSE /\ vout = FALSE
    /\ carg = << >> /\ cret = << >> /\ cdone = FALSE
    /\ scoreRuns = 0

\* ------------------------------------------------------------------------
\* analyze_grid_area, step by step
\* ------------------------------------------------------------------------
\* line 237: the pacing sleep is taken before every point but the first
NeedsPace_always(idx) == TRUE

NeedsPace(idx) == idx > 0

\* line 250: time.sleep(2**attempt)
BackoffDelay_linear(k) == 2 * k

BackoffDelay(k) == 2 ^ k

\* lines 244-250: where the retry loop goes after a call that returned
AfterAttempt_nobreak(isNone, k, mr) ==
    IF k < mr - 1 THEN "backoff" ELSE "extract"

AfterAttempt(isNone, k, mr) ==
    IF ~isNone THEN "extract"
    ELSE IF k < mr - 1 THEN "backoff"
    ELSE "extract"

\* line 242: range(max_retries) is empty for max_retries <= 0
RetryLoopEntry(mr) == IF mr > 0 THEN "attempt" ELSE "extract"

\* line 318: if not results
NoDataError(rows, total) == IF rows = << >> THEN "NoDataRetrieved" ELSE ""

\* the frame of analyze_grid_area is gone once the call has ended
ResetLocals ==
    /\ grid_points' = << >>
    /\ i' = 0
    /\ attempt' = 0
    /\ fetched' = NoneFetched
    /\ results' = << >>
    /\ max_retries' = 0
    /\ delay' = 0
    /\ requests' = 0
    /\ waits' = << >>
    /\ paceWaits' = 0

\* lines 212-230: unpack and validate the bounds, build the grid
FetchStart(req, mr, dl) ==
    /\ pc = "idle"
    /\ IF BoundsError(req.bounds) # ""
       THEN /\ outcome' = Outcome("analyze_grid_area", << req.bounds, req.grid_spacing >>,
                                  BoundsError(req.bounds), << >>, 0)
            /\ pc' = "idle"
            /\ enumerated' = enumerated
            /\ ResetLocals
       ELSE /\ enumerated + Len(GridPoints(req.bounds, req.grid_spacing)) <= MaxPoints
            /\ enumerated' = enumerated + Len(GridPoints(req.bounds, req.grid_spacing))
            /\ grid_points' = GridPoints(req.bounds, req.grid_spacing)
            /\ results' = << >>
            /\ i' = 0
            /\ attempt' = 0
            /\ fetched' = NoneFetched
            /\ max_retries' = mr
            /\ delay' = dl
            /\ requests' = 0
            /\ waits' = << >>
            /\ paceWaits' = 0
            /\ outcome' = Outcome("analyze_grid_area", << req.bounds, req.grid_spacing >>,
                                  "running", << >>, 0)
            /\ pc' = IF Len(grid_points') = 0 THEN "finish" ELSE "point"
    /\ UNCHANGED << pv_data, suitability_scores, succeeded, validatorVars, callVars >>
    /\ scoreRuns' = 0

\* lines 232-242: the head of the loop body: the pacing sleep, pv_data = None
LoopHead ==
    /\ pc = "point"
    /\ IF NeedsPace(i)
       THEN /\ waits' = << Wait("pace", delay) >>
            /\ paceWaits' = paceWaits + 1
       ELSE /\ waits' = << >>
            /\ paceWaits' = paceWaits
    /\ requests' = 0
    /\ attempt' = 0
    /\ fetched' = NoneFetched
    /\ pc' = RetryLoopEntry(max_retries)
    /\ UNCHANGED << pv_data, suitability_scores, grid_points, i, results,
                    max_retries, delay, outcome, enumerated, succeeded, validatorVars, callVars >>
    /\ scoreRuns' = 0

\* lines 243-246: one call of fetch_pvgis_data and the tests that follow it
Attempt(resp) ==
    /\ pc = "attempt"
    /\ LET lon == grid_points[i + 1][1]
           lat == grid_points[i + 1][2]
           r   == fetch_pvgis_data(lat, lon, resp)
       IN  /\ requests' = IF r.requested THEN requests + 1 ELSE requests
           /\ IF r.raised # ""
              THEN /\ outcome' = [outcome EXCEPT !.err = r.raised, !.n = Len(results)]
                   /\ pc' = "crashed"
                   /\ fetched' = fetched
              ELSE /\ outcome' = outcome
                   /\ fetched' = [isNone |-> r.isNone, data |-> r.data]
                   /\ pc' = AfterAttempt(r.isNone, attempt, max_retries)
    /\ UNCHANGED << pv_data, suitability_scores, grid_points, i, attempt, results,
                    max_retries, delay, waits, paceWaits, enumerated, succeeded,
                    validatorVars, callVars >>
    /\ scoreRuns' = 0

\* lines 247-250: the backoff sleep, then the next iteration of the retry loop
Backoff ==
    /\ pc = "backoff"
    /\ waits' = Append(waits, Wait("backoff", BackoffDelay(attempt)))
    /\ attempt' = attempt + 1
    /\ pc' = "attempt"
    /\ UNCHANGED << pv_data, suitability_scores, grid_points, i, fetched, results,
                    max_retries, delay, outcome, requests, paceWaits, enumerated,
                    succeeded, validatorVars, callVars >>
    /\ scoreRuns' = 0

\* lines 252-316: turn the response into a record, then go on to the next point
Extract ==
    /\ pc = "extract"
    /\ LET lon == grid_points[i + 1][1]
           lat == grid_points[i + 1][2]
           e   == ExtractRecord(lon, lat, fetched.isNone, fetched.data)
       IN  IF e.kind = "raise"
           THEN /\ outcome' = [outcome EXCEPT !.err = e.err, !.n = Len(results)]
                /\ pc' = "crashed"
                /\ UNCHANGED << results, i >>
           ELSE /\ results' = IF e.kind = "append" THEN Append(results, e.row) ELSE results
                /\ i' = i + 1
                /\ pc' = IF i + 1 < Len(grid_points) THEN "point" ELSE "finish"
                /\ outcome' = outcome
    /\ UNCHANGED << pv_data, suitability_scores, grid_points, attempt, fetched,
                    max_retries, delay, requests, waits, paceWaits, enumerated,
                    succeeded, validatorVars, callVars >>
    /\ scoreRuns' = 0

StoredDataset_early(previous, rows, total) == DataFrame(rows)

\* lines 318-323: self.pv_data is assigned after the test of results, so a call
\* that raises there leaves it as it was
StoredDataset(previous, rows, total) ==
    IF NoDataError(rows, total) # "" THEN previous ELSE DataFrame(rows)

\* lines 318-325: the end of analyze_grid_area
Finish ==
    /\ pc = "finish"
    /\ IF NoDataError(results, Len(grid_points)) # ""
       THEN /\ outcome' = [outcome EXCEPT !.err = NoDataError(results, Len(grid_points)),
                                          !.n = Len(results)]
            /\ succeeded' = succeeded
       ELSE /\ outcome' = [outcome EXCEPT !.err = "", !.value = results,
                                          !.n = Len(results)]
            /\ succeeded' = succeeded \cup {"analyze_grid_area"}
    /\ pv_data' = StoredDataset(pv_data, results, Len(grid_points))
    /\ pc' = "idle"
    /\ ResetLocals
    /\ UNCHANGED << suitability_scores, enumerated, validatorVars, callVars >>
    /\ scoreRuns' = 0

\* an exception that nothing in analyze_grid_area catches leaves the call
Unwind ==
    /\ pc = "crashed"
    /\ pc' = "idle"
    /\ ResetLocals
    /\ UNCHANGED << pv_data, suitability_scores, outcome, enumerated, succeeded,
                    validatorVars, callVars >>
    /\ scoreRuns' = 0

\* ------------------------------------------------------------------------
\* calculate_suitability_score
\* ------------------------------------------------------------------------
\* a float that is not a number
NaN == 0 - 1

IsNaN(x) == x = NaN

\* lines 341-342
ScoreError_never(pv) == ""

ScoreError(pv) == IF pv.isNone THEN "NotConfigured" ELSE ""

\* lines 345-351, in tenths
DefaultWeights ==
    [annual_energy |-> 4, annual_irradiation |-> 3, performance_ratio |-> 2,
     seasonal_stability |-> 1]

WeightKeys ==
    {"annual_energy", "annual_irradiation", "performance_ratio", "seasonal_stability"}

NoWeights == [isNone |-> TRUE, map |-> DefaultWeights]
Weights(map) == [isNone |-> FALSE, map |-> map]

\* the weights arguments the model passes: none, a full map, a partial map
WeightChoices ==
    { NoWeights,
      Weights([annual_energy |-> 1, annual_irradiation |-> 1, performance_ratio |-> 1,
               seasonal_stability |-> 7]),
      Weights([annual_energy |-> 5]) }

Normalize_zero(v, mn, mx) ==
    IF mx = mn THEN 0 ELSE ((v - mn) * ScoreScale) \div (mx - mn)

Normalize_bymax(v, mn, mx) ==
    IF mx = mn THEN 0 - 1 ELSE ((v - mn) * ScoreScale) \div mx

\* (v - min) / (max - min) in units of 1 / ScoreScale; 0 / 0 is NaN
Normalize(v, mn, mx) ==
    IF mx = mn THEN NaN ELSE ((v - mn) * ScoreScale) \div (mx - mn)

Invert_identity(x) == x

\* 1 - x
Invert(x) == IF IsNaN(x) THEN NaN ELSE ScoreScale - x

\* lines 378-383, in units of 1 / (10 * ScoreScale)
WeightedSum(w, es, is, ps, ss) ==
    IF IsNaN(es) \/ IsNaN(is) \/ IsNaN(ps) \/ IsNaN(ss) THEN NaN
    ELSE w.annual_energy * es + w.annual_irradiation * is
         + w.performance_ratio * ps + w.seasonal_stability * ss

\* lines 386-390: pd.cut with bins [0, 0.3, 0.6, 0.8, 1.0], right-closed intervals
Classify(s) ==
    IF IsNaN(s) THEN "NaN"
    ELSE IF 0 < s /\ s <= 3 * ScoreScale THEN "Low"
    ELSE IF 3 * ScoreScale < s /\ s <= 6 * ScoreScale THEN "Moderate"
    ELSE IF 6 * ScoreScale < s /\ s <= 8 * ScoreScale THEN "High"
    ELSE IF 8 * ScoreScale < s /\ s <= 10 * ScoreScale THEN "Excellent"
    ELSE "NaN"

Column(rows, f) == { rows[k][f] : k \in DOMAIN rows }

\* lines 353-390
ScoredRows(rows, w) ==
    LET norm(f) ==
            LET mn == MinOf(Column(rows, f))
                mx == MaxOf(Column(rows, f))
            IN  [k \in DOMAIN rows |-> Normalize(rows[k][f], mn, mx)]
        es == norm("annual_energy_kwh")
        is == norm("annual_irradiation_kwh_m2")
        ps == norm("performance_ratio")
        sn == norm("seasonal_variation")
        ss == [k \in DOMAIN rows |-> Invert(sn[k])]
        su == [k \in DOMAIN rows |-> WeightedSum(w, es[k], is[k], ps[k], ss[k])]
    IN  [k \in DOMAIN rows |->
            rows[k] @@ [energy_score |-> es[k], irradiation_score |-> is[k],
                        performance_score |-> ps[k], stability_score |-> ss[k],
                        suitability_score |-> su[k],
                        suitability_class |-> Classify(su[k])]]

StoredScores_appended(previous, rows) == DataFrame(previous.rows \o rows)

\* line 392: self.suitability_scores = df replaces what was stored
StoredScores(previous, rows) == DataFrame(rows)

DatasetAfterScore_nocopy(pv, df) == DataFrame(df)

\* line 353: df = self.pv_data.copy(): the score columns are added to the copy,
\* and self.pv_data keeps its records
DatasetAfterScore(pv, df) == pv

Score(weights) ==
    /\ pc = "idle"
    /\ LET w == IF weights.isNone THEN DefaultWeights ELSE weights.map
           err == IF ScoreError(pv_data) # "" THEN ScoreError(pv_data)
                  ELSE IF ~(WeightKeys \subseteq DOMAIN w) THEN "KeyError"
                  ELSE ""
           df == ScoredRows(pv_data.rows, w)
       IN  IF err # ""
           THEN /\ outcome' = Outcome("calculate_suitability_score", << weights >>,
                                      err, << >>, 0)
                /\ UNCHANGED << pv_data, suitability_scores, succeeded >>
           ELSE /\ suitability_scores' = StoredScores(suitability_scores, df)
                /\ pv_data' = DatasetAfterScore(pv_data, df)
                /\ outcome' = Outcome("calculate_suitability_score", << weights >>, "",
                                      df, Len(pv_data.rows))
                /\ succeeded' = succeeded \cup {"calculate_suitability_score"}
    /\ scoreRuns' = IF outcome'.err # "" THEN 0
                    ELSE IF scoreRuns > 0 /\ outcome.args = << weights >> THEN 2
                    ELSE 1
    /\ UNCHANGED << pc, grid_points, i, attempt, fetched, results,
                    max_retries, delay, requests, waits, paceWaits, enumerated,
                    validatorVars, callVars >>

\* ------------------------------------------------------------------------
\* identify_optimal_locations
\* ------------------------------------------------------------------------
\* lines 411-414
SelectError(ss) == IF ss.isNone THEN "NotScored" ELSE ""

\* a sorts strictly before b in sort_values(ascending=False): NaN goes last
Before(a, b) == ~IsNaN(a) /\ (IsNaN(b) \/ a > b)

RECURSIVE InsertByScore(_, _)
InsertByScore(sorted, r) ==
    IF sorted = << >> THEN << r >>
    ELSE IF Before(r.suitability_score, Head(sorted).suitability_score)
    THEN << r >> \o sorted
    ELSE << Head(sorted) >> \o InsertByScore(Tail(sorted), r)

RECURSIVE SortFrom(_, _)
SortFrom(sorted, rest) ==
    IF rest = << >> THEN sorted
    ELSE SortFrom(InsertByScore(sorted, Head(rest)), Tail(rest))

sort_values_unsorted(rows) == rows

\* line 417: df.sort_values("suitability_score", ascending=False); rows of equal
\* score keep their order
sort_values(rows) == SortFrom(<< >>, rows)

\* lines 420-424: EPSG:4326 -> EPSG:3857, in km: x is linear in the longitude,
\* y is tabulated at the whole degrees 35..47 and interpolated between them
MercatorKm == << 4164, 4301, 4439, 4579, 4722, 4866, 5012, 5161, 5312, 5465, 5622,
                 5780, 5942 >>

ProjX(lon) == ((lon \div (Deg \div 100)) * 111319) \div 100000

ProjY(lat) ==
    LET d == lat \div Deg
        f == (lat - d * Deg) \div (Deg \div 1000)
    IN  MercatorKm[d - 34] + (f * (MercatorKm[d - 33] - MercatorKm[d - 34])) \div 1000

\* the square of geometry.distance in EPSG:3857, km^2
Dist2(p, q) ==
    (ProjX(p.longitude) - ProjX(q.longitude)) * (ProjX(p.longitude) - ProjX(q.longitude))
    + (ProjY(p.latitude) - ProjY(q.latitude)) * (ProjY(p.latitude) - ProjY(q.latitude))

FarEnough_selfonly(p, best, min_distance_km) == Dist2(p, best) > 0

\* line 438: distances >= min_distance_m, for min_distance_km >= 0
FarEnough(p, best, min_distance_km) == Dist2(p, best) >= min_distance_km * min_distance_km

\* lines 431-441, with todo iterations of the for loop left
RECURSIVE SelectLoop(_, _, _, _)
SelectLoop(remaining_points, selected_locations, todo, min_distance_km) ==
    IF todo = 0 THEN selected_locations
    ELSE
      LET best_point == remaining_points[1]
          selected == Append(selected_locations, best_point)
          remaining == SelectSeq(remaining_points,
                                 LAMBDA p : FarEnough(p, best_point, min_distance_km))
      IN  IF Len(remaining) = 0 THEN selected
          ELSE SelectLoop(remaining, selected, todo - 1, min_distance_km)

Min(a, b) == IF a <= b THEN a ELSE b

\* lines 416-451; the rows come back with the longitude and latitude of their
\* geometry, which are those of the scored row up to the projection's rounding
SelectedLocations(rows, top_n, min_distance_km) ==
    LET remaining_points == sort_values(rows)
    IN  SelectLoop(remaining_points, << >>, Min(top_n, Len(remaining_points)),
                   min_distance_km)

TopNChoices == 1..MaxTopN

\* min_distance_km values a caller passes
MinDistances == {0, 5, 120, 1000}

\* lines 416-417: the copy is sorted (sort_values returns a new frame), and
\* self.suitability_scores keeps its records and their order
ScoresAfterSelect(ss, sorted) == ss

SelectTop(top_n, min_distance_km) ==
    /\ pc = "idle"
    /\ IF SelectError(suitability_scores) # ""
       THEN /\ outcome' = Outcome("identify_optimal_locations",
                                  << top_n, min_distance_km >>,
                                  SelectError(suitability_scores), << >>, 0)
            /\ suitability_scores' = suitability_scores
       ELSE /\ outcome' = Outcome("identify_optimal_locations",
                                  << top_n, min_distance_km >>, "",
                                  SelectedLocations(suitability_scores.rows, top_n,
                                                    min_distance_km),
                                  Len(suitability_scores.rows))
            /\ suitability_scores'
                 = ScoresAfterSelect(suitability_scores,
                                     sort_values(suitability_scores.rows))
    /\ UNCHANGED << pv_data, pc, grid_points, i, attempt, fetched,
                    results, max_retries, delay, requests, waits, paceWaits,
                    enumerated, succeeded, validatorVars, callVars >>
    /\ scoreRuns' = 0

\* ------------------------------------------------------------------------
\* create_suitability_map, generate_report: read-only views
\* ------------------------------------------------------------------------
\* lines 465-468
MapError(ss) == IF ss.isNone THEN "NotScored" ELSE ""

\* lines 567-568
ReportError(ss) == IF ss.isNone THEN "NotScored" ELSE ""

CreateMap ==
    /\ pc = "idle"
    /\ outcome' = Outcome("create_suitability_map", << >>, MapError(suitability_scores),
                          << >>, Len(suitability_scores.rows))
    /\ UNCHANGED << pv_data, suitability_scores, pc, grid_points, i, attempt, fetched,
                    results, max_retries, delay, requests, waits, paceWaits,
                    enumerated, succeeded, validatorVars, callVars >>
    /\ scoreRuns' = 0

\* lines 608-617: the number of rows of each class, in the order of the report
Classes == << "Excellent", "High", "Moderate", "Low" >>

ClassCounts(rows) ==
    [c \in 1..Len(Classes) |->
        Cardinality({ k \in DOMAIN rows : rows[k].suitability_class = Classes[c] })]

GenerateReport ==
    /\ pc = "idle"
    /\ outcome' = Outcome("generate_report", << >>, ReportError(suitability_scores),
                          IF ReportError(suitability_scores) # "" THEN << >>
                          ELSE ClassCounts(suitability_scores.rows),
                          Len(suitability_scores.rows))
    /\ UNCHANGED << pv_data, suitability_scores, pc, grid_points, i, attempt, fetched,
                    results, max_retries, delay, requests, waits, paceWaits,
                    enumerated, succeeded, validatorVars, callVars >>
    /\ scoreRuns' = 0

Next ==
    \/ \E req \in GridRequests, mr \in RetryChoices, dl \in Delays : FetchStart(req, mr, dl)
    \/ LoopHead
    \/ \E resp \in Responses : Attempt(resp)
    \/ Backoff
    \/ Extract
    \/ Finish
    \/ Unwind
    \/ \E weights \in WeightChoices : Score(weights)
    \/ \E top_n \in TopNChoices, min_distance_km \in MinDistances :
          SelectTop(top_n, min_distance_km)
    \/ CreateMap
    \/ GenerateReport

Spec == Init /\ [][Next]_vars

\* ------------------------------------------------------------------------
\* validate_coordinates on its own: the arguments are drawn around every
\* threshold of the validator
\* ------------------------------------------------------------------------
Around(degrees) == UNION { {D(d) - 1, D(d), D(d) + 1} : d \in degrees }

LatSamples == Around({-90, 30, 33, 35, 36, 40, 42, 44, 46, 90}) \cup {D(-91), D(91), D(0)}

LonSamples ==
    Around({-180, -10, -6, -1, 8, 12, 20, 24, 30, 36, 40, 180}) \cup {D(200), D(0)}

InitValidate ==
    /\ Init!1 /\ Init!2 /\ Init!3 /\ Init!4 /\ Init!5 /\ Init!6 /\ Init!7 /\ Init!8
    /\ Init!9 /\ Init!10 /\ Init!11 /\ Init!12 /\ Init!13 /\ Init!14 /\ Init!15
    /\ Init!16
    /\ vlat \in LatSamples
    /\ vlon \in LonSamples
    /\ vdone = FALSE
    /\ vout = FALSE
    /\ Init!18 /\ Init!19

Validate ==
    /\ ~vdone
    /\ vout' = validate_coordinates(vlat, vlon)
    /\ vdone' = TRUE
    /\ UNCHANGED << pv_data, suitability_scores, pc, grid_points, i, attempt, fetched,
                    results, max_retries, delay, outcome, requests, waits, paceWaits,
                    enumerated, succeeded, vlat, vlon, callVars, scoreRuns >>

NextValidate == Validate

SpecValidate == InitValidate /\ [][NextValidate]_vars

\* ------------------------------------------------------------------------
\* calculate_suitability_score and generate_report on their own: the stored
\* dataset is drawn from the records a grid of up to MaxScoreRows points can
\* give, each metric taking one of two values
\* ------------------------------------------------------------------------
ScoreLattice ==
    SelectSeq(GridPoints(<< D(-2), D(44), D(-1), D(45) >>, D(1)),
              LAMBDA p : validate_coordinates(Round6(p[2]), Round6(p[1])))

MetricSamples ==
    [e : {1400, 1600}, h : {1800, 2000}, sv : {20, 57}, pr : {80, 85}]

ScoreDatasets ==
    UNION { { [k \in 1..n |-> Row(ScoreLattice[k][1], ScoreLattice[k][2],
                                  m[k].e, m[k].h, m[k].sv, m[k].pr)] :
              m \in [1..n -> MetricSamples] } : n \in 1..MaxScoreRows }

\* the weights arguments: those of WeightChoices, all weights zero, two weights zero
ScoreWeightChoices ==
    WeightChoices \cup
    { Weights([annual_energy |-> 0, annual_irradiation |-> 0, performance_ratio |-> 0,
               seasonal_stability |-> 0]),
      Weights([annual_energy |-> 5, annual_irradiation |-> 5, performance_ratio |-> 0,
               seasonal_stability |-> 0]) }

InitScore ==
    /\ pv_data \in { DataFrame(rows) : rows \in ScoreDatasets }
    /\ Init!2 /\ Init!3 /\ Init!4 /\ Init!5 /\ Init!6 /\ Init!7 /\ Init!8
    /\ Init!9 /\ Init!10 /\ Init!11 /\ Init!12 /\ Init!13 /\ Init!14 /\ Init!15
    /\ succeeded = {"analyze_grid_area"}
    /\ Init!17 /\ Init!18 /\ Init!19

NextScore ==
    \/ \E weights \in ScoreWeightChoices : Score(weights)
    \/ GenerateReport

SpecScore == InitScore /\ [][NextScore]_vars

\* ------------------------------------------------------------------------
\* The size of the grid of analyze_grid_area in floating point, lines 221-228.
\* A float is a multiple of 1 / One with at most Precision significant bits;
\* every operation rounds its exact result to the nearest float, ties to even.
\* The arguments are decimal literals in tenths, non-negative.
\* ------------------------------------------------------------------------
FracBits == Precision + 3

One == 2 ^ FracBits

RECURSIVE Log2Floor(_)
Log2Floor(n) == IF n < 2 THEN 0 ELSE 1 + Log2Floor(n \div 2)

RoundHalfEven(n, d) ==
    LET q == n \div d
        r == n % d
    IN  IF 2 * r > d \/ (2 * r = d /\ q % 2 = 1) THEN q + 1 ELSE q

\* the float nearest to n / d, n / d being in units of 1 / One
FloatRound(n, d) ==
    LET f == Log2Floor(n \div d)
        quantum == IF f >= Precision THEN 2 ^ (f - Precision + 1) ELSE 1
    IN  RoundHalfEven(n, d * quantum) * quantum

\* the value of the literal tenths / 10
Float(tenths) == FloatRound(tenths * One, 10)

FAdd(x, y) == FloatRound(x + y, 1)

FSub(x, y) == FloatRound(x - y, 1)

FDiv(x, y) == FloatRound(x * One, y)

CeilDiv(a, b) == (a + b - 1) \div b

\* len(np.arange(start, stop, step)) = ceil((stop - start) / step)
ArangeLength(start, stop, step) ==
    IF stop <= start THEN 0 ELSE CeilDiv(FDiv(FSub(stop, start), step), One)

\* lines 221-228: len(grid_points)
GridSize(min_lon, min_lat, max_lon, max_lat, grid_spacing) ==
    ArangeLength(min_lon, FAdd(max_lon, grid_spacing), grid_spacing)
    * ArangeLength(min_lat, FAdd(max_lat, grid_spacing), grid_spacing)

\* bounds with min <= max on both axes and a positive spacing, in tenths
GridArgs ==
    { a \in [min_lon : 0..MaxTenth, max_lon : 0..MaxTenth, min_lat : 0..2, max_lat : 0..2,
             grid_spacing : {1, 2, 5, 10}] :
        a.min_lon <= a.max_lon /\ a.min_lat <= a.max_lat }

InitGrid ==
    /\ Init!1 /\ Init!2 /\ Init!3 /\ Init!4 /\ Init!5 /\ Init!6 /\ Init!7 /\ Init!8
    /\ Init!9 /\ Init!10 /\ Init!11 /\ Init!12 /\ Init!13 /\ Init!14 /\ Init!15
    /\ Init!16 /\ Init!17 /\ Init!19
    /\ carg \in GridArgs
    /\ cret = 0
    /\ cdone = FALSE

EnumerateGrid ==
    /\ ~cdone
    /\ cret' = GridSize(Float(carg.min_lon), Float(carg.min_lat), Float(carg.max_lon),
                        Float(carg.max_lat), Float(carg.grid_spacing))
    /\ cdone' = TRUE
    /\ UNCHANGED << pv_data, suitability_scores, pc, grid_points, i, attempt, fetched,
                    results, max_retries, delay, outcome, requests, waits, paceWaits,
                    enumerated, succeeded, validatorVars, carg, scoreRuns >>

NextGrid == EnumerateGrid

SpecGrid == InitGrid /\ [][NextGrid]_vars

\* ------------------------------------------------------------------------
\* gen_listof_int (expansion_prova.py): list(range(min, max, step))
\* ------------------------------------------------------------------------
Listed(raised, list) == [raised |-> raised, list |-> list]

gen_listof_int_inclusive(min, max, step) ==
    IF step <= 0 THEN Listed("ValueError", << >>)
    ELSE Listed("", [k \in 1..(((max - min) \div step) + 1) |-> min + (k - 1) * step])

\* range(min, max, step): a step of 0 raises ValueError, a negative step counts
\* down to above max
gen_listof_int(min, max, step) ==
    IF step = 0 THEN Listed("ValueError", << >>)
    ELSE
      LET n == IF step > 0
               THEN (IF max > min THEN (max - min + step - 1) \div step ELSE 0)
               ELSE (IF max < min THEN (min - max - step - 1) \div (0 - step) ELSE 0)
      IN  Listed("", [k \in 1..n |-> min + (k - 1) * step])

GenArgs == [min : (0 - 1)..MaxInt, max : (0 - 1)..MaxInt, step : {0 - 2, 0 - 1, 0, 1, 2, 3}]

InitGen ==
    /\ Init!1 /\ Init!2 /\ Init!3 /\ Init!4 /\ Init!5 /\ Init!6 /\ Init!7 /\ Init!8
    /\ Init!9 /\ Init!10 /\ Init!11 /\ Init!12 /\ Init!13 /\ Init!14 /\ Init!15
    /\ Init!16 /\ Init!17 /\ Init!19
    /\ carg \in GenArgs
    /\ cret = Listed("", << >>)
    /\ cdone = FALSE

GenList ==
    /\ ~cdone
    /\ cret' = gen_listof_int(carg.min, carg.max, carg.step)
    /\ cdone' = TRUE
    /\ UNCHANGED << pv_data, suitability_scores, pc, grid_points, i, attempt, fetched,
                    results, max_retries, delay, outcome, requests, waits, paceWaits,
                    enumerated, succeeded, validatorVars, carg, scoreRuns >>

NextGen == GenList

SpecGen == InitGen /\ [][NextGen]_vars

\* ------------------------------------------------------------------------
\* Properties
\* ------------------------------------------------------------------------
InRetryLoop == pc \in {"attempt", "backoff"}

AtPoint == pc \in {"attempt", "backoff", "extract", "crashed"}

\* the validator's verdict on the k-th lattice point, as fetch_pvgis_data sees it
Accepted(k) ==
    validate_coordinates(Round6(grid_points[k][2]), Round6(grid_points[k][1]))

OutOfRange(b) ==
    \/ b[1] < D(-180) \/ b[1] > D(180) \/ b[3] < D(-180) \/ b[3] > D(180)
    \/ b[2] < D(-90) \/ b[2] > D(90) \/ b[4] < D(-90) \/ b[4] > D(90)

RECURSIVE Pow2(_)
Pow2(n) == IF n = 0 THEN 1 ELSE 2 * Pow2(n - 1)

Backoffs(ws) == { k \in DOMAIN ws : ws[k].kind = "backoff" }

\* C1: a call of analyze_grid_area with valid bounds ends in one of two ways: with
\* NoDataRetrieved, having accumulated zero records, or by returning and storing
\* exactly the records it accumulated (one or more, possibly fewer than the grid).
C1_EndsNoDataOrStores ==
    (pc = "idle" /\ outcome.op = "analyze_grid_area" /\ ~OutOfRange(outcome.args[1]))
    => \/ outcome.err = "NoDataRetrieved" /\ outcome.n = 0
       \/ /\ outcome.err = ""
          /\ outcome.n > 0
          /\ Len(outcome.value) = outcome.n
          /\ pv_data = DataFrame(outcome.value)

\* what does hold for C1: a call that reaches the end of the grid raises
\* NoDataRetrieved exactly when it accumulated nothing, and stores the rest
C1_WhenGridCompletes ==
    [][pc = "finish" =>
         /\ pc' = "idle"
         /\ (results = << >> <=> outcome'.err = "NoDataRetrieved")
         /\ (results = << >> => pv_data' = pv_data)
         /\ (results # << >> => outcome'.err = "" /\ pv_data' = DataFrame(results)
                                /\ outcome'.value = results)]_vars

\* C2: at most max_retries provider requests are issued for a lattice point, the
\* retry loop is left as soon as a request has succeeded, and a point whose
\* attempts all failed adds no record.
C2_RetryBound ==
    [][/\ requests' <= max_retries'
       /\ (pc' \in {"attempt", "backoff"} => fetched'.isNone)
       /\ (pc = "extract" /\ fetched.isNone => results' = results)]_vars

C2_Witness ==
    pc = "extract" /\ fetched.isNone /\ max_retries > 1 /\ requests = max_retries

\* C3: after the failed attempt k the fetcher sleeps 2^k and tries again exactly
\* when k < max_retries - 1; nothing else adds a backoff sleep, so none follows
\* the last attempt or a success, and with max_retries = 1 the waits of a point
\* are at most its one pacing wait.
C3_Backoff ==
    [][/\ (pc = "attempt" /\ pc' # "crashed"
             => (pc' = "backoff" <=> (fetched'.isNone /\ attempt < max_retries - 1)))
       /\ (pc = "backoff"
             => /\ waits' = Append(waits, Wait("backoff", Pow2(attempt)))
                /\ attempt' = attempt + 1
                /\ pc' = "attempt")
       /\ (pc # "backoff" => Cardinality(Backoffs(waits')) <= Cardinality(Backoffs(waits)))
       /\ (max_retries' = 1 => Backoffs(waits') = {} /\ Len(waits') <= 1)]_vars

C3_Witness ==
    /\ pc = "attempt" /\ attempt = 2
    /\ \E k \in DOMAIN waits : waits[k] = Wait("backoff", 2)

\* C4: every lattice point but the first is preceded by exactly one pacing wait
\* of delay time units, whatever happened at the points before it, so a grid of
\* P points is finished after exactly P - 1 pacing waits.
C4_Pacing ==
    /\ AtPoint =>
         /\ paceWaits = i
         /\ Cardinality({ k \in DOMAIN waits : waits[k].kind = "pace" })
              = (IF i > 0 THEN 1 ELSE 0)
         /\ (i > 0 => waits[1] = Wait("pace", delay))
    /\ pc = "point" => paceWaits = (IF i = 0 THEN 0 ELSE i - 1)
    /\ pc = "finish" =>
         paceWaits = (IF Len(grid_points) = 0 THEN 0 ELSE Len(grid_points) - 1)

C4_Witness ==
    /\ pc = "finish" /\ Len(grid_points) = 4 /\ paceWaits = 3
    /\ Len(results) = 1 /\ results[1].longitude = D(-2) /\ results[1].latitude = D(45)

\* C5: while a lattice point that the validator rejects (on its rounded
\* coordinates) is being processed, no provider request is issued, no error is
\* raised and no response is held; every record comes from an accepted point.
C5_NoRequestForRejected ==
    /\ (AtPoint /\ ~Accepted(i + 1))
         => requests = 0 /\ pc # "crashed" /\ fetched.isNone
    /\ \A k \in DOMAIN results :
         validate_coordinates(Round6(results[k].latitude), Round6(results[k].longitude))

C5_Witness ==
    /\ pc = "extract" /\ ~Accepted(i + 1) /\ requests = 0
    /\ max_retries > 1 /\ attempt = max_retries - 1
    /\ validate_coordinates(grid_points[i + 1][2], grid_points[i + 1][1])

\* C6: analyze_grid_area ends only by returning, by InvalidBounds, or by
\* NoDataRetrieved with zero records accumulated: no failure of one lattice point
\* ends it.
C6_PointFailureNeverEndsFetch ==
    outcome.op = "analyze_grid_area"
    => /\ outcome.err \in {"running", "", "InvalidBounds", "NoDataRetrieved"}
       /\ (outcome.err = "NoDataRetrieved" => outcome.n = 0)

\* C7: validate(lat, lon) is true exactly when lat is in [-90, 90], lon is in
\* [-180, 180] and in [-10, 40], and the point is in none of the three exclusion
\* rectangles; it changes nothing of the analyzer.
InRectangle(lat, lon, lat1, lat2, lon1, lon2) ==
    D(lat1) <= lat /\ lat <= D(lat2) /\ D(lon1) <= lon /\ lon <= D(lon2)

C7_Validate ==
    vdone =>
      /\ vout <=> /\ D(-90) <= vlat /\ vlat <= D(90)
                  /\ D(-180) <= vlon /\ vlon <= D(180)
                  /\ ~(vlon < D(-10)) /\ ~(vlon > D(40))
                  /\ ~InRectangle(vlat, vlon, 36, 44, -1, 8)
                  /\ ~InRectangle(vlat, vlon, 35, 42, 12, 20)
                  /\ ~InRectangle(vlat, vlon, 33, 40, 24, 30)
      /\ (vlat = D(91) \/ vlon = D(200) => ~vout)
      /\ pv_data = NoneDF /\ suitability_scores = NoneDF /\ pc = "idle"

C7_Witness == vdone /\ vout /\ vlat = D(44) + 1 /\ vlon = D(8)

\* C8: a call whose bounds are out of range ends with InvalidBounds at once: no
\* grid has been built, no request issued and no wait taken.
C8_InvalidBounds ==
    (outcome.op = "analyze_grid_area" /\ OutOfRange(outcome.args[1]))
    => /\ outcome.err = "InvalidBounds"
       /\ pc = "idle"
       /\ grid_points = << >>
       /\ requests = 0 /\ waits = << >> /\ paceWaits = 0

C8_Witness ==
    /\ outcome.op = "analyze_grid_area" /\ outcome.err = "InvalidBounds"
    /\ outcome.args[1][2] = D(91)
    /\ ~pv_data.isNone

\* C9: before any analyze_grid_area has succeeded, calculate_suitability_score
\* fails with NotConfigured; before any calculate_suitability_score has
\* succeeded, identify_optimal_locations, generate_report and
\* create_suitability_map fail with NotScored; and such a call changes nothing.
C9_StageOrder ==
    [][pc = "idle" /\ outcome' # outcome =>
         /\ (outcome'.op = "calculate_suitability_score"
             /\ "analyze_grid_area" \notin succeeded)
              => /\ outcome'.err = "NotConfigured"
                 /\ UNCHANGED << pv_data, suitability_scores, succeeded, pc >>
         /\ (outcome'.op \in {"identify_optimal_locations", "generate_report",
                              "create_suitability_map"}
             /\ "calculate_suitability_score" \notin succeeded)
              => /\ outcome'.err = "NotScored"
                 /\ UNCHANGED << pv_data, suitability_scores, succeeded, pc >>]_vars

C9_Witness ==
    /\ outcome.op = "identify_optimal_locations" /\ outcome.err = "NotScored"
    /\ "analyze_grid_area" \in succeeded

\* C10: a selection holds at most top_n records, no record of it has a higher
\* suitability_score than one before it, and any two of its records are at least
\* min_distance apart in the projected metric.
C10_Selection ==
    (outcome.op = "identify_optimal_locations" /\ outcome.err = "")
    => LET sel == outcome.value
           top_n == outcome.args[1]
           min_distance_km == outcome.args[2]
       IN  /\ Len(sel) <= top_n
           /\ \A a, b \in DOMAIN sel :
                a < b =>
                  /\ ~(/\ ~IsNaN(sel[b].suitability_score)
                       /\ \/ IsNaN(sel[a].suitability_score)
                          \/ sel[b].suitability_score > sel[a].suitability_score)
                  /\ Dist2(sel[a], sel[b]) >= min_distance_km * min_distance_km

C10_Witness ==
    /\ outcome.op = "identify_optimal_locations" /\ outcome.err = ""
    /\ outcome.args = << 3, 120 >>
    /\ Len(suitability_scores.rows) = 3
    /\ Len(outcome.value) = 2
    /\ outcome.value[1].suitability_score > outcome.value[2].suitability_score
    /\ outcome.value[1].longitude # suitability_scores.rows[1].longitude

\* a successful identify_optimal_locations call is the last thing that happened
Selected == outcome.op = "identify_optimal_locations" /\ outcome.err = ""

\* C11: identify_optimal_locations with top_n = 3 and min_distance_km = 0 on a
\* scored collection of at least 3 distinct records returns exactly 3 records,
\* three different ones, none of them scoring higher than one returned before it.
C11_TopThreeNoFilter ==
    (Selected /\ outcome.args = << 3, 0 >> /\ Len(suitability_scores.rows) >= 3)
    => /\ Len(outcome.value) = 3
       /\ \A a \in DOMAIN outcome.value : \A b \in DOMAIN outcome.value :
             a < b => /\ outcome.value[a] # outcome.value[b]
                      /\ ~Before(outcome.value[b].suitability_score,
                                 outcome.value[a].suitability_score)

\* the distance threshold exceeds the distance between any two scored records
BeyondDiagonal(rows, min_distance_km) ==
    \A a \in DOMAIN rows : \A b \in DOMAIN rows :
        Dist2(rows[a], rows[b]) < min_distance_km * min_distance_km

\* C12: with a min_distance_km larger than the greatest distance between any
\* two scored records, identify_optimal_locations returns exactly one record,
\* a record of the scored collection that no other record outscores, whatever
\* top_n is.
C12_BeyondDiagonalOne ==
    (Selected /\ BeyondDiagonal(suitability_scores.rows, outcome.args[2]))
    => /\ Len(outcome.value) = 1
       /\ \E k \in DOMAIN suitability_scores.rows :
             outcome.value[1] = suitability_scores.rows[k]
       /\ \A k \in DOMAIN suitability_scores.rows :
             ~Before(suitability_scores.rows[k].suitability_score,
                     outcome.value[1].suitability_score)

C12_Witness ==
    /\ Selected
    /\ outcome.args[1] = 3
    /\ Len(suitability_scores.rows) = 3
    /\ BeyondDiagonal(suitability_scores.rows, outcome.args[2])
    /\ Len(outcome.value) = 1
    /\ ~IsNaN(outcome.value[1].suitability_score)

Scored == ~suitability_scores.isNone

\* a successful calculate_suitability_score call is the last thing that happened
JustScored == outcome.op = "calculate_suitability_score" /\ outcome.err = ""

DefinedScore(x) == ~IsNaN(x) /\ 0 <= x /\ x <= 10 * ScoreScale

\* the class of C13: intervals closed on the left, 1.0 in the last one
UpperBucket(x) ==
    IF x < 3 * ScoreScale THEN "Low"
    ELSE IF x < 6 * ScoreScale THEN "Moderate"
    ELSE IF x < 8 * ScoreScale THEN "High"
    ELSE "Excellent"

\* C13: a suitability_score s is classified Low when 0 <= s < 0.3, Moderate when
\* 0.3 <= s < 0.6, High when 0.6 <= s < 0.8 and Excellent when 0.8 <= s <= 1.0, so
\* a boundary value belongs to the upper bucket.
C13_UpperBucket ==
    Scored =>
      \A k \in DOMAIN suitability_scores.rows :
        DefinedScore(suitability_scores.rows[k].suitability_score)
        => suitability_scores.rows[k].suitability_class
             = UpperBucket(suitability_scores.rows[k].suitability_score)

\* C14: every scored record whose suitability_score is a defined value in [0, 1]
\* carries one of the four classes, so the four class counts of a report on such
\* records add up to the number of scored records.
C14_ClassCountsAddUp ==
    /\ Scored =>
         \A k \in DOMAIN suitability_scores.rows :
           DefinedScore(suitability_scores.rows[k].suitability_score)
           => suitability_scores.rows[k].suitability_class
                \in { Classes[c] : c \in DOMAIN Classes }
    /\ ( /\ outcome.op = "generate_report" /\ outcome.err = ""
         /\ \A k \in DOMAIN suitability_scores.rows :
               DefinedScore(suitability_scores.rows[k].suitability_score) )
       => SumSeq(outcome.value) = Len(suitability_scores.rows)

MetricScores ==
    << << "annual_energy_kwh", "energy_score" >>,
       << "annual_irradiation_kwh_m2", "irradiation_score" >>,
       << "performance_ratio", "performance_score" >> >>

Varies(rows, f) == MinOf(Column(rows, f)) # MaxOf(Column(rows, f))

\* (v - min) / (max - min) of row k for metric f, in units of 1 / ScoreScale
MinMax(rows, k, f) ==
    ((rows[k][f] - MinOf(Column(rows, f))) * ScoreScale)
        \div (MaxOf(Column(rows, f)) - MinOf(Column(rows, f)))

\* C15: in a scored collection, for a metric that is not constant, each record's
\* component score is (v - min) / (max - min) over the whole collection: it lies
\* in [0, 1], is 0 for a record holding the minimum and 1 for one holding the
\* maximum; the stability score is 1 minus that value for the seasonal variation,
\* 1 for the lowest variation and 0 for the highest.
C15_MinMax ==
    Scored =>
      LET rows == suitability_scores.rows
      IN  /\ \A m \in DOMAIN MetricScores :
                Varies(rows, MetricScores[m][1]) =>
                  \A k \in DOMAIN rows :
                    LET v == rows[k][MetricScores[m][1]]
                        x == rows[k][MetricScores[m][2]]
                    IN  /\ x = MinMax(rows, k, MetricScores[m][1])
                        /\ 0 <= x /\ x <= ScoreScale
                        /\ v = MinOf(Column(rows, MetricScores[m][1])) => x = 0
                        /\ v = MaxOf(Column(rows, MetricScores[m][1])) => x = ScoreScale
          /\ Varies(rows, "seasonal_variation") =>
                \A k \in DOMAIN rows :
                  LET v == rows[k].seasonal_variation
                      x == rows[k].stability_score
                  IN  /\ x = ScoreScale - MinMax(rows, k, "seasonal_variation")
                      /\ 0 <= x /\ x <= ScoreScale
                      /\ v = MinOf(Column(rows, "seasonal_variation")) => x = ScoreScale
                      /\ v = MaxOf(Column(rows, "seasonal_variation")) => x = 0

C15_Witness ==
    /\ Scored
    /\ Len(suitability_scores.rows) = 2
    /\ \A m \in DOMAIN MetricScores : Varies(suitability_scores.rows, MetricScores[m][1])
    /\ Varies(suitability_scores.rows, "seasonal_variation")
    /\ suitability_scores.rows[1].energy_score = ScoreScale
    /\ suitability_scores.rows[2].energy_score = 0
    /\ suitability_scores.rows[1].stability_score = 0

\* record a is above record b in energy, irradiation and performance and below
\* it in seasonal variation
Dominates(rows, a, b) ==
    /\ rows[a].annual_energy_kwh > rows[b].annual_energy_kwh
    /\ rows[a].annual_irradiation_kwh_m2 > rows[b].annual_irradiation_kwh_m2
    /\ rows[a].performance_ratio > rows[b].performance_ratio
    /\ rows[a].seasonal_variation < rows[b].seasonal_variation

ComponentsOneZero(rows, a, b) ==
    /\ rows[a].energy_score = ScoreScale /\ rows[b].energy_score = 0
    /\ rows[a].irradiation_score = ScoreScale /\ rows[b].irradiation_score = 0
    /\ rows[a].performance_score = ScoreScale /\ rows[b].performance_score = 0
    /\ rows[a].stability_score = ScoreScale /\ rows[b].stability_score = 0

\* the weights the last calculate_suitability_score call worked with
UsedWeights == IF outcome.args[1].isNone THEN DefaultWeights ELSE outcome.args[1].map

\* C16: for a two-record collection in which record A has the maximum and
\* record B the minimum of every metric (the inverted seasonal variation being
\* the fourth), scoring yields 1 for A and 0 for B in each of the four component
\* scores and suitability_score(A) > suitability_score(B), for every choice of
\* non-negative weights.
C16_DominantAhead ==
    (JustScored /\ Len(suitability_scores.rows) = 2) =>
      \A a \in {1, 2} : \A b \in {1, 2} :
        Dominates(suitability_scores.rows, a, b)
        => /\ ComponentsOneZero(suitability_scores.rows, a, b)
           /\ suitability_scores.rows[a].suitability_score
                > suitability_scores.rows[b].suitability_score

\* C16, amended: the same, for every choice of non-negative weights of which at
\* least one is positive.
C16_DominantAheadPositive ==
    (JustScored /\ Len(suitability_scores.rows) = 2
     /\ \E f \in WeightKeys : UsedWeights[f] > 0) =>
      \A a \in {1, 2} : \A b \in {1, 2} :
        Dominates(suitability_scores.rows, a, b)
        => /\ ComponentsOneZero(suitability_scores.rows, a, b)
           /\ suitability_scores.rows[a].suitability_score
                > suitability_scores.rows[b].suitability_score

C16_Witness ==
    /\ JustScored
    /\ Len(suitability_scores.rows) = 2
    /\ Dominates(suitability_scores.rows, 2, 1)
    /\ UsedWeights.annual_energy = 5
    /\ UsedWeights.seasonal_stability = 0
    /\ suitability_scores.rows[2].suitability_score = 10 * ScoreScale
    /\ suitability_scores.rows[1].suitability_score = 0

\* the supplied weights over the defaults
MergedWeights(weights) ==
    [f \in WeightKeys |->
        IF ~weights.isNone /\ f \in DOMAIN weights.map THEN weights.map[f]
        ELSE DefaultWeights[f]]

\* C17: calculate_suitability_score with a weights map that supplies only some
\* of the four weights scores with the supplied weights and the defaults (0.4,
\* 0.3, 0.2, 0.1) for the missing ones; with no map it scores with the four
\* defaults.
C17_PartialWeights ==
    (outcome.op = "calculate_suitability_score" /\ ~pv_data.isNone)
    => /\ outcome.err = ""
       /\ suitability_scores
            = DataFrame(ScoredRows(pv_data.rows, MergedWeights(outcome.args[1])))

\* the columns of a record of pv_data
RawColumns ==
    {"longitude", "latitude", "annual_energy_kwh", "annual_irradiation_kwh_m2",
     "seasonal_variation", "performance_ratio", "specific_yield"}

Raw(row) == [f \in RawColumns |-> row[f]]

\* C19: in every reachable state the stored scored collection was computed from
\* the dataset that is stored now (its records are the records of pv_data, in
\* order), so identify_optimal_locations and the report never work on scores of
\* a dataset that analyze_grid_area has since replaced.
C19_ScoresOfStoredDataset ==
    Scored =>
      /\ ~pv_data.isNone
      /\ Len(suitability_scores.rows) = Len(pv_data.rows)
      /\ \A k \in DOMAIN suitability_scores.rows :
            Raw(suitability_scores.rows[k]) = pv_data.rows[k]

\* C20: calculate_suitability_score run a second time on the same stored dataset
\* with the same weights yields the records of the first run and leaves pv_data,
\* suitability_scores and the set of completed stages as the first run left them.
C20_Idempotent ==
    [][ (JustScored /\ outcome'.op = "calculate_suitability_score"
         /\ outcome'.args = outcome.args)
        => /\ outcome' = outcome
           /\ suitability_scores' = suitability_scores
           /\ pv_data' = pv_data
           /\ succeeded' = succeeded ]_vars

C20_Witness ==
    /\ JustScored
    /\ scoreRuns = 2
    /\ Len(suitability_scores.rows) = 2
    /\ suitability_scores = DataFrame(outcome.value)
    /\ \A k \in DOMAIN suitability_scores.rows :
          DefinedScore(suitability_scores.rows[k].suitability_score)

\* C18: for bounds with min <= max on both axes and a spacing > 0,
\* analyze_grid_area enumerates ceil((max_lon - min_lon) / spacing + 1) times
\* ceil((max_lat - min_lat) / spacing + 1) points, the bounds and the spacing
\* being the decimal numbers the caller wrote; a rectangle of zero area gives
\* exactly one point.
C18_LatticeSize ==
    cdone =>
      /\ cret = (CeilDiv(carg.max_lon - carg.min_lon, carg.grid_spacing) + 1)
                * (CeilDiv(carg.max_lat - carg.min_lat, carg.grid_spacing) + 1)
      /\ (carg.min_lon = carg.max_lon /\ carg.min_lat = carg.max_lat) => cret = 1

\* analyze_grid_area has ended with one of its two fatal errors
FatalFetchError ==
    /\ outcome.op = "analyze_grid_area"
    /\ outcome.err \in {"InvalidBounds", "NoDataRetrieved"}

\* C21: every fatal error raised by analyze_grid_area (InvalidBounds,
\* NoDataRetrieved) carries the attempted bounds and the numbers of points
\* attempted and succeeded.
C21_ErrorsCarryContext ==
    FatalFetchError =>
      LET ex == Raised(outcome.err, outcome.args[1])
      IN  /\ {"bounds", "attempted", "succeeded"} \subseteq DOMAIN ex
          /\ ex.bounds = outcome.args[1]
          /\ ex.succeeded = outcome.n

\* C22: for step > 0, gen_listof_int(min, max, step) returns exactly the
\* integers min, min + step, min + 2 * step, ... that are strictly below max, in
\* increasing order; max itself is never in the list, gen_listof_int(1, 11, 1)
\* is 1..10, and the list is empty when min >= max.
C22_GenListOfInt ==
    (cdone /\ carg.step > 0) =>
      /\ cret.raised = ""
      /\ { cret.list[k] : k \in DOMAIN cret.list }
           = { x \in carg.min..(carg.max - 1) : (x - carg.min) % carg.step = 0 }
      /\ \A k \in DOMAIN cret.list : k > 1 => cret.list[k - 1] < cret.list[k]
      /\ \A k \in DOMAIN cret.list : cret.list[k] # carg.max
      /\ carg.min >= carg.max => cret.list = << >>
      /\ (carg.min = 1 /\ carg.max = 11 /\ carg.step = 1)
         => cret.list = << 1, 2, 3, 4, 5, 6, 7, 8, 9, 10 >>

C22_Witness ==
    /\ cdone
    /\ carg = [min |-> 1, max |-> 11, step |-> 1]
    /\ Len(cret.list) = 10
    /\ cret.list[10] = 10

\* the provider's answer to the last request for the current point was a failure:
\* nothing came back, or a payload no record can be made from
ProviderFailed == fetched.isNone \/ fetched.data \in FailureResponses

\* C23: every provider failure at a point (timeout, HTTP error, malformed payload
\* of any kind) is followed by a retry while fewer than max_retries attempts have
\* been made: the retry loop is left with a failure, and the point dropped, only
\* after max_retries attempts.
C23_FailureRetried ==
    (pc = "extract" /\ max_retries > 0 /\ Accepted(i + 1) /\ ProviderFailed)
    => requests = max_retries

Candidates(rows, sel, k, min_distance_km) ==
    { r \in { rows[n] : n \in DOMAIN rows } :
        \A j \in 1..(k - 1) :
            /\ r # sel[j]
            /\ Dist2(r, sel[j]) >= min_distance_km * min_distance_km }

Greedy(rows, sel, top_n, min_distance_km) ==
    /\ \A k \in DOMAIN sel :
          /\ sel[k] \in Candidates(rows, sel, k, min_distance_km)
          /\ \A c \in Candidates(rows, sel, k, min_distance_km) :
                ~Before(c.suitability_score, sel[k].suitability_score)
    /\ Len(sel) <= top_n
    /\ Len(sel) < top_n => Candidates(rows, sel, Len(sel) + 1, min_distance_km) = {}

\* C25: identify_optimal_locations is the greedy score-first filter: the k-th
\* selected record is a highest-scoring one among the candidates at least
\* min_distance_km away from every record selected before it, and the selection
\* has fewer than top_n records only when no candidate remains.
C25_Greedy ==
    Selected => Greedy(suitability_scores.rows, outcome.value, outcome.args[1],
                       outcome.args[2])

\* the same for the calls with min_distance_km > 0
C25_GreedyWhenApart ==
    (Selected /\ outcome.args[2] > 0)
    => Greedy(suitability_scores.rows, outcome.value, outcome.args[1], outcome.args[2])

\* C29: no record appears more than once in the result of
\* identify_optimal_locations, for every top_n >= 1 and min_distance_km >= 0.
C29_NoDuplicates ==
    Selected =>
      \A a \in DOMAIN outcome.value : \A b \in DOMAIN outcome.value :
          a # b => outcome.value[a] # outcome.value[b]

AllMetricScores == MetricScores \o << << "seasonal_variation", "stability_score" >> >>

\* C26: when a metric is constant over the scored collection (as in every
\* collection of one record), calculate_suitability_score, called with no
\* weights or with all four, raises no error and yields NaN for that component
\* score and for the suitability_score of every record.
C26_ConstantMetricNaN ==
    ( /\ outcome.op = "calculate_suitability_score"
      /\ ~pv_data.isNone
      /\ WeightKeys \subseteq DOMAIN UsedWeights
      /\ \E m \in DOMAIN AllMetricScores : ~Varies(pv_data.rows, AllMetricScores[m][1]) )
    => /\ outcome.err = ""
       /\ Len(suitability_scores.rows) = Len(pv_data.rows)
       /\ \A m \in DOMAIN AllMetricScores :
            ~Varies(pv_data.rows, AllMetricScores[m][1]) =>
              \A k \in DOMAIN suitability_scores.rows :
                /\ IsNaN(suitability_scores.rows[k][AllMetricScores[m][2]])
                /\ IsNaN(suitability_scores.rows[k].suitability_score)

C26_Witness ==
    /\ JustScored
    /\ Len(suitability_scores.rows) = 2
    /\ ~Varies(pv_data.rows, "performance_ratio")
    /\ Varies(pv_data.rows, "annual_energy_kwh")
    /\ IsNaN(suitability_scores.rows[1].performance_score)
    /\ ~IsNaN(suitability_scores.rows[1].energy_score)
    /\ IsNaN(suitability_scores.rows[2].suitability_score)

\* <<lon, lat>> pairs in row-major order: by ascending latitude, and by ascending
\* longitude within one latitude; no pair twice
RowMajor(points) ==
    \A a \in DOMAIN points : \A b \in DOMAIN points :
        a < b => \/ points[a][2] < points[b][2]
                 \/ (points[a][2] = points[b][2] /\ points[a][1] < points[b][1])

Coordinates(rows) == [k \in DOMAIN rows |-> << rows[k].longitude, rows[k].latitude >>]

\* C27: analyze_grid_area takes the lattice points one after another in row-major
\* order: the loop index moves on by one, and only when the retry loop of the
\* current point is over; the records made so far belong to points already
\* taken, at most one to a point, and they are in the dataset in that same order.
C27_RowMajorSequential ==
    /\ [](pc # "idle" =>
            /\ RowMajor(grid_points)
            /\ RowMajor(Coordinates(results))
            /\ \A k \in DOMAIN results :
                 \E p \in 1..i : grid_points[p] = Coordinates(results)[k])
    /\ [](~pv_data.isNone => RowMajor(Coordinates(pv_data.rows)))
    /\ [][ (pc # "idle" /\ pc' # "idle" /\ i' # i)
           => (pc = "extract" /\ i' = i + 1 /\ Len(results') <= Len(results) + 1) ]_vars

C27_Witness ==
    /\ pc = "finish"
    /\ Len(grid_points) = 4
    /\ Len(results) = 3
    /\ results[1].latitude = D(44)
    /\ results[2].latitude = D(45) /\ results[2].longitude = D(-2)
    /\ results[3].latitude = D(45) /\ results[3].longitude = D(-1)

\* C28: calculate_suitability_score never modifies the stored dataset and
\* identify_optimal_locations never modifies the stored scored collection (nor
\* the dataset): the records are the same before and after the call.
C28_InputsKept ==
    [][ /\ (outcome'.op = "calculate_suitability_score" /\ pc = "idle")
           => pv_data' = pv_data
        /\ (outcome'.op = "identify_optimal_locations" /\ pc = "idle")
           => (suitability_scores' = suitability_scores /\ pv_data' = pv_data) ]_vars

C28_Witness ==
    /\ Selected
    /\ Len(outcome.value) = 2
    /\ Len(pv_data.rows) = 3
    /\ outcome.value[1] # suitability_scores.rows[1]
    /\ \A k \in DOMAIN pv_data.rows : pv_data.rows[k] = Raw(suitability_scores.rows[k])
    /\ \E k \in DOMAIN suitability_scores.rows :
          DefinedScore(suitability_scores.rows[k].suitability_score)

\* C30: a call of analyze_grid_area that fails leaves the stored dataset and the
\* stored scored collection as they were: no step of the call changes them
\* except the step that ends it successfully.
C30_FailedFetchKeepsState ==
    [][ ( /\ pc # "idle" \/ outcome'.op = "analyze_grid_area"
          /\ ~(pc = "finish" /\ outcome'.err = "") )
        => (pv_data' = pv_data /\ suitability_scores' = suitability_scores) ]_vars

C30_Witness ==
    /\ pc = "idle"
    /\ outcome.op = "analyze_grid_area"
    /\ outcome.err = "NoDataRetrieved"
    /\ ~pv_data.isNone
    /\ Scored
    /\ Len(suitability_scores.rows) = Len(pv_data.rows)

====
